---- MODULE Spec2Model ----
(***************************************************************************)
(* Model of hooks/format_commit_msg.py: the Commit object, whose lifecycle *)
(* derives a default commit type and an issue number from the branch name, *)
(* reads the commit message file, extracts a leading "type:" token,        *)
(* formats the message as ISSUE(type): text and writes it back.            *)
(*                                                                         *)
(* A Python str is modelled as a sequence of one-character strings, so     *)
(* that slicing, strip(), lower(), upper() and the two regular expressions *)
(* are computed character by character.                                    *)
(***************************************************************************)
EXTENDS Integers, Sequences, FiniteSets, TLC

VARIABLES
    branch_name,             \* Commit.branch_name
    default_commit_type,     \* Commit.default_commit_type
    issue_no,                \* Commit.issue_no
    commit_message,          \* Commit.commit_message
    commit_type,             \* Commit.commit_type
    updated_commit_message,  \* Commit.updated_commit_message
    file,                    \* content of the file at Commit.message_fp
    file0,                   \* history: content of that file before the run
    pc,                      \* index in Lifecycle of the next call
    called,                  \* history: the methods called so far, in order
    err                      \* the exception that ended the run, or NoErr

vars == <<branch_name, default_commit_type, issue_no, commit_message,
          commit_type, updated_commit_message, file, file0, pc, called, err>>

----------------------------------------------------------------------------
(* Bounds of the explored inputs *)

\* longest second branch segment enumerated exhaustively
MaxSeg == 3
\* longest message remainder (after the leading word) enumerated exhaustively
MaxTail == 4

----------------------------------------------------------------------------
(* Python values *)

\* Python's None; no str equals it, since every element of a str is one
\* character long
None == <<"None">>

DEFAULT_COMMIT_TYPES ==
    << <<"f","i","x">>,
       <<"f","e","a","t">>,
       <<"b","u","i","l","d">>,
       <<"c","h","o","r","e">>,
       <<"c","i">>,
       <<"d","o","c","s">>,
       <<"s","t","y","l","e">>,
       <<"r","e","f","a","c","t","o","r">>,
       <<"p","e","r","f">>,
       <<"t","e","s","t">> >>

DEFAULT_SKIP_PREFIXES ==
    << <<"s","k","i","p">>,
       <<"n","o","-","v","e","r","i","f","y">>,
       <<"s">> >>

\* x in lst, for a Python list
In(x, lst) == \E i \in 1..Len(lst) : lst[i] = x

AsciiLower == <<"a","b","c","d","e","f","g","h","i","j","k","l","m",
                "n","o","p","q","r","s","t","u","v","w","x","y","z">>
AsciiUpper == <<"A","B","C","D","E","F","G","H","I","J","K","L","M",
                "N","O","P","Q","R","S","T","U","V","W","X","Y","Z">>

\* the character class [A-Za-z]
IsLetter(c) == \E i \in 1..26 : AsciiLower[i] = c \/ AsciiUpper[i] = c
\* the character class [0-9]
IsDigit(c) == c \in {"0","1","2","3","4","5","6","7","8","9"}
\* the characters str.strip() removes
IsSpace(c) == c \in {" ", "\t", "\n", "\r", "\f"}

LowerChar(c) ==
    IF \E i \in 1..26 : AsciiUpper[i] = c
    THEN AsciiLower[CHOOSE i \in 1..26 : AsciiUpper[i] = c]
    ELSE c
UpperChar(c) ==
    IF \E i \in 1..26 : AsciiLower[i] = c
    THEN AsciiUpper[CHOOSE i \in 1..26 : AsciiLower[i] = c]
    ELSE c

\* str.lower()
Lower(s) == [i \in 1..Len(s) |-> LowerChar(s[i])]
\* str.upper()
Upper(s) == [i \in 1..Len(s) |-> UpperChar(s[i])]

\* s[n:]
SliceFrom(s, n) == SubSeq(s, n + 1, Len(s))

\* number of leading characters of s that satisfy the class
RECURSIVE LettersRun(_)
LettersRun(s) ==
    IF s # <<>> /\ IsLetter(Head(s)) THEN 1 + LettersRun(Tail(s)) ELSE 0
RECURSIVE DigitsRun(_)
DigitsRun(s) ==
    IF s # <<>> /\ IsDigit(Head(s)) THEN 1 + DigitsRun(Tail(s)) ELSE 0
RECURSIVE SpaceRun(_)
SpaceRun(s) ==
    IF s # <<>> /\ IsSpace(Head(s)) THEN 1 + SpaceRun(Tail(s)) ELSE 0

\* the sequence reversed
Reverse(s) == [i \in 1..Len(s) |-> s[Len(s) + 1 - i]]

\* str.lstrip(), str.rstrip(), str.strip()
LStrip(s) == SliceFrom(s, SpaceRun(s))
RStrip(s) == SubSeq(s, 1, Len(s) - SpaceRun(Reverse(s)))
Strip(s) == RStrip(LStrip(s))

\* str.split("/")
RECURSIVE Split(_)
Split(s) ==
    IF \E i \in 1..Len(s) : s[i] = "/"
    THEN LET i == CHOOSE k \in 1..Len(s) :
                      s[k] = "/" /\ \A j \in 1..(k - 1) : s[j] # "/"
         IN  <<SubSeq(s, 1, i - 1)>> \o Split(SliceFrom(s, i))
    ELSE <<s>>

\* re.search(r"^[A-Za-z]+-[0-9]+$", s): the matched text, or None.
\* "$" matches at the end of s and also just before a newline that ends s.
IssueMatch(s) ==
    LET l == LettersRun(s)
        r == SliceFrom(s, l)
        d == IF r # <<>> /\ Head(r) = "-" THEN DigitsRun(Tail(r)) ELSE 0
        e == SliceFrom(s, l + 1 + d)
    IN  IF l >= 1 /\ d >= 1 /\ (e = <<>> \/ e = <<"\n">>)
        THEN SubSeq(s, 1, l + 1 + d)
        ELSE None

\* re.search(r"^[A-Za-z]+(?=:)", s): the matched text, or None.
\* The letters are matched greedily; a shorter run is followed by a letter,
\* never by the colon, so only the whole leading run can match.
TypeMatch(s) ==
    LET l == LettersRun(s)
    IN  IF l >= 1 /\ Len(s) > l /\ s[l + 1] = ":"
        THEN SubSeq(s, 1, l)
        ELSE None

----------------------------------------------------------------------------
(* Exceptions *)

NoErr == [exc |-> "", msg |-> "", args |-> <<>>]

\* ValueError raised by _set_branch_info
InvalidBranchFormat ==
    [exc |-> "ValueError",
     msg |-> "Branch name contains a type but no jira issue no.",
     args |-> <<>>]
\* IndexError raised by branch_name_parts[1] on a one-segment branch
IndexError ==
    [exc |-> "IndexError", msg |-> "list index out of range", args |-> <<>>]
\* ValueError raised by _extract_type_from_commit_message, no type anywhere
UnresolvedCommitType(branch, message) ==
    [exc |-> "ValueError",
     msg |-> "Commit type could not be determined from the branch name or the commit message.",
     args |-> <<branch, Strip(message)>>]
\* ValueError raised by _extract_type_from_commit_message, unknown type
DisallowedCommitType(token) ==
    [exc |-> "ValueError",
     msg |-> "Commit type is not allowed according to conventional commit.",
     args |-> <<Lower(token)>>]
\* ValueError raised by _format_commit_message
IncompleteResolution ==
    [exc |-> "ValueError",
     msg |-> "Either commit_type of issue_no could not be determined.",
     args |-> <<>>]
\* TypeError raised by re.search or by f.write on None
TypeError ==
    [exc |-> "TypeError", msg |-> "expected str", args |-> <<>>]

----------------------------------------------------------------------------
(* Inputs *)

RECURSIVE StringsUpTo(_, _)
StringsUpTo(A, n) ==
    IF n = 0 THEN {<<>>}
    ELSE LET S == StringsUpTo(A, n - 1)
         IN  S \cup {Append(s, c) : s \in S, c \in A}

\* first branch segments: two commit types in two casings, and no type
BranchHeads == { <<"f","e","a","t">>, <<"F","i","X">>,
                 <<"d","e","v","e","l","o","p">> }
\* what follows the first segment: nothing, or a second segment drawn
\* exhaustively from short strings, with or without a third segment.
\* A git branch name holds no control character, so no newline is drawn.
BranchTails ==
    {<<>>} \cup
    { <<"/">> \o s \o t : s \in StringsUpTo({"a","B","-","1"}, MaxSeg),
                          t \in {<<>>, <<"/","x">>} }
RichBranches == { h \o t : h \in BranchHeads, t \in BranchTails }

FewBranches ==
    { <<"d","e","v","e","l","o","p">>,
      <<"f","e","a","t","/","A","B","C","-","1","2","3","/","m","y">>,
      <<"F","i","x","/","a","b","-","7">>,
      <<"c","i","/","m","y">>,
      <<"t","e","s","t">>,
      <<"s","k","i","p","/","A","-","1">> }

\* leading words of a message: none, commit types and skip prefixes in
\* several casings, and a word outside the vocabulary
MsgHeads == { <<>>, <<"f","i","x">>, <<"F","e","a","t">>, <<"C","I">>,
              <<"s","k","i","p">>, <<"S","k","i","p">>, <<"s">>, <<"S">>,
              <<"n","o","-","v","e","r","i","f","y">>,
              <<"f","o","o">> }
RichMessages ==
    { h \o t : h \in MsgHeads,
               t \in StringsUpTo({":", " ", "\n", "m"}, MaxTail) }

FewMessages ==
    { <<>>,
      <<"m","y"," ","m","s","g">>,
      <<"f","i","x",":"," ","m","y"," ","m","s","g","\n">>,
      <<"F","E","A","T",":","m">>,
      <<"S","k","i","p",":"," ","m","\n">>,
      <<"s",":"," "," ","m"," ">>,
      <<"n","o","-","v","e","r","i","f","y",":"," ","m">>,
      <<"w","i","p",":"," ","m">>,
      <<"D","o","c","s",":","\t","m","y"," ","m","s","g"," ","\n">> }

\* the branch names the repository can report as active
ActiveBranches == FewBranches

\* (branch name, message) pairs: every branch with a few messages, every
\* message with a few branches; branch None asks the repository
Inputs ==
    (RichBranches \X FewMessages) \cup
    ((FewBranches \cup {None}) \X RichMessages)

----------------------------------------------------------------------------
(* The program *)

\* format_message with the format step called before the extract step
format_message_formatFirst ==
    << "_read_commit_message", "_format_commit_message",
       "_extract_type_from_commit_message", "_write_commit_message" >>

\* the calls of Commit.format_message, in order
format_message ==
    << "_read_commit_message", "_extract_type_from_commit_message",
       "_format_commit_message", "_write_commit_message" >>

\* the calls of one run: Commit(...) then .format_message()
Lifecycle == <<"_set_branch_info">> \o format_message

\* the next call is method m, with exceptions swallowed instead of
\* propagated out of the run
At_ignoringErrors(m) == pc <= Len(Lifecycle) /\ Lifecycle[pc] = m

\* the next call is method m
At(m) == err = NoErr /\ pc <= Len(Lifecycle) /\ Lifecycle[pc] = m

\* the fields set by Commit.__init__ before it calls _set_branch_info
Init ==
    /\ \E p \in Inputs : branch_name = p[1] /\ file = p[2]
    /\ file0 = file
    /\ default_commit_type = None
    /\ issue_no = None
    /\ commit_message = None
    /\ commit_type = None
    /\ updated_commit_message = None
    /\ pc = 1
    /\ called = <<>>
    /\ err = NoErr

\* the outcome of _set_branch_info for branch name b:
\* the exception, default_commit_type and issue_no
BranchInfo(b) ==
    LET branch_name_parts == Split(b)
        first == Lower(branch_name_parts[1])
    IN  IF ~In(first, DEFAULT_COMMIT_TYPES)
        THEN [err |-> NoErr, default_commit_type |-> None, issue_no |-> None]
        ELSE IF Len(branch_name_parts) < 2
        THEN [err |-> IndexError, default_commit_type |-> None,
              issue_no |-> None]
        ELSE IF IssueMatch(branch_name_parts[2]) = None
        THEN [err |-> InvalidBranchFormat, default_commit_type |-> None,
              issue_no |-> None]
        ELSE [err |-> NoErr, default_commit_type |-> first,
              issue_no |-> IssueMatch(branch_name_parts[2])]

_set_branch_info ==
    /\ At("_set_branch_info")
    /\ branch_name' \in IF branch_name = None \/ branch_name = <<>>
                        THEN ActiveBranches
                        ELSE {branch_name}
    /\ LET info == BranchInfo(branch_name')
       IN  /\ err' = info.err
           /\ default_commit_type' = info.default_commit_type
           /\ issue_no' = info.issue_no
    /\ pc' = pc + 1
    /\ called' = Append(called, "_set_branch_info")
    /\ UNCHANGED <<commit_message, commit_type, updated_commit_message,
                   file, file0>>

_read_commit_message ==
    /\ At("_read_commit_message")
    /\ commit_message' = file
    /\ pc' = pc + 1
    /\ called' = Append(called, "_read_commit_message")
    /\ UNCHANGED <<branch_name, default_commit_type, issue_no, commit_type,
                   updated_commit_message, file, file0, err>>

\* _extract_type_from_commit_message where the branch's type, when there
\* is one, wins over a recognized token of the message
ExtractType_branchFirst(message, default, branch) ==
    LET match == TypeMatch(message)
    IN  IF match = None
        THEN IF default = None
             THEN [err |-> UnresolvedCommitType(branch, message),
                   commit_type |-> None, commit_message |-> message]
             ELSE [err |-> NoErr, commit_type |-> default,
                   commit_message |-> message]
        ELSE IF In(Lower(match), DEFAULT_SKIP_PREFIXES \o DEFAULT_COMMIT_TYPES)
        THEN [err |-> NoErr,
              commit_type |-> IF default = None THEN match ELSE default,
              commit_message |-> Strip(SliceFrom(message, Len(match) + 1))]
        ELSE [err |-> DisallowedCommitType(match),
              commit_type |-> None, commit_message |-> message]

\* _extract_type_from_commit_message where a token outside the vocabulary
\* falls back to the branch's type when there is one
ExtractType_fallback(message, default, branch) ==
    LET match == TypeMatch(message)
    IN  IF match = None
             \/ (default # None
                   /\ ~In(Lower(match),
                          DEFAULT_SKIP_PREFIXES \o DEFAULT_COMMIT_TYPES))
        THEN IF default = None
             THEN [err |-> UnresolvedCommitType(branch, message),
                   commit_type |-> None, commit_message |-> message]
             ELSE [err |-> NoErr, commit_type |-> default,
                   commit_message |-> message]
        ELSE IF In(Lower(match), DEFAULT_SKIP_PREFIXES \o DEFAULT_COMMIT_TYPES)
        THEN [err |-> NoErr, commit_type |-> match,
              commit_message |-> Strip(SliceFrom(message, Len(match) + 1))]
        ELSE [err |-> DisallowedCommitType(match),
              commit_type |-> None, commit_message |-> message]

\* _extract_type_from_commit_message where the token, the colon and one
\* more character are sliced off and nothing is stripped
ExtractType_colonSpace(message, default, branch) ==
    LET match == TypeMatch(message)
    IN  IF match = None
        THEN IF default = None
             THEN [err |-> UnresolvedCommitType(branch, message),
                   commit_type |-> None, commit_message |-> message]
             ELSE [err |-> NoErr, commit_type |-> default,
                   commit_message |-> message]
        ELSE IF In(Lower(match), DEFAULT_SKIP_PREFIXES \o DEFAULT_COMMIT_TYPES)
        THEN [err |-> NoErr, commit_type |-> match,
              commit_message |-> SliceFrom(message, Len(match) + 2)]
        ELSE [err |-> DisallowedCommitType(match),
              commit_type |-> None, commit_message |-> message]

\* the outcome of _extract_type_from_commit_message:
\* the exception, commit_type and commit_message
ExtractType(message, default, branch) ==
    LET match == TypeMatch(message)
    IN  IF match = None
        THEN IF default = None
             THEN [err |-> UnresolvedCommitType(branch, message),
                   commit_type |-> None, commit_message |-> message]
             ELSE [err |-> NoErr, commit_type |-> default,
                   commit_message |-> message]
        ELSE IF In(Lower(match), DEFAULT_SKIP_PREFIXES \o DEFAULT_COMMIT_TYPES)
        THEN [err |-> NoErr, commit_type |-> match,
              commit_message |-> Strip(SliceFrom(message, Len(match) + 1))]
        ELSE [err |-> DisallowedCommitType(match),
              commit_type |-> None, commit_message |-> message]

_extract_type_from_commit_message ==
    /\ At("_extract_type_from_commit_message")
    /\ IF commit_message = None
       THEN /\ err' = TypeError
            /\ UNCHANGED <<commit_type, commit_message>>
       ELSE LET r == ExtractType(commit_message, default_commit_type,
                                 branch_name)
            IN  /\ err' = r.err
                /\ commit_type' = r.commit_type
                /\ commit_message' = r.commit_message
    /\ pc' = pc + 1
    /\ called' = Append(called, "_extract_type_from_commit_message")
    /\ UNCHANGED <<branch_name, default_commit_type, issue_no,
                   updated_commit_message, file, file0>>

\* _format_commit_message where the issue number is not upper-cased
FormatMessage_noUpper(type, issue, message, updated) ==
    IF In(type, DEFAULT_SKIP_PREFIXES)
    THEN [err |-> NoErr, updated_commit_message |-> message]
    ELSE IF type = None \/ issue = None
    THEN [err |-> IncompleteResolution, updated_commit_message |-> updated]
    ELSE [err |-> NoErr,
          updated_commit_message |->
              issue \o <<"(">> \o Lower(type)
                  \o <<")", ":", " ">> \o message]

\* _format_commit_message where a missing issue number is not checked and
\* is formatted as the empty text
FormatMessage_noIssueCheck(type, issue, message, updated) ==
    IF In(type, DEFAULT_SKIP_PREFIXES)
    THEN [err |-> NoErr, updated_commit_message |-> message]
    ELSE IF type = None
    THEN [err |-> IncompleteResolution, updated_commit_message |-> updated]
    ELSE [err |-> NoErr,
          updated_commit_message |->
              (IF issue = None THEN <<>> ELSE Upper(issue)) \o <<"(">>
                  \o Lower(type) \o <<")", ":", " ">> \o message]

\* the outcome of _format_commit_message:
\* the exception and updated_commit_message
FormatMessage(type, issue, message, updated) ==
    IF In(type, DEFAULT_SKIP_PREFIXES)
    THEN [err |-> NoErr, updated_commit_message |-> message]
    ELSE IF type = None \/ issue = None
    THEN [err |-> IncompleteResolution, updated_commit_message |-> updated]
    ELSE [err |-> NoErr,
          updated_commit_message |->
              Upper(issue) \o <<"(">> \o Lower(type)
                  \o <<")", ":", " ">> \o message]

_format_commit_message ==
    /\ At("_format_commit_message")
    /\ LET r == FormatMessage(commit_type, issue_no, commit_message,
                              updated_commit_message)
       IN  /\ err' = r.err
           /\ updated_commit_message' = r.updated_commit_message
    /\ pc' = pc + 1
    /\ called' = Append(called, "_format_commit_message")
    /\ UNCHANGED <<branch_name, default_commit_type, issue_no,
                   commit_message, commit_type, file, file0>>

\* open(..., "w") truncates the file, then f.write stores the text;
\* f.write(None) raises after the truncation
_write_commit_message ==
    /\ At("_write_commit_message")
    /\ IF updated_commit_message = None
       THEN file' = <<>> /\ err' = TypeError
       ELSE file' = updated_commit_message /\ err' = NoErr
    /\ pc' = pc + 1
    /\ called' = Append(called, "_write_commit_message")
    /\ UNCHANGED <<branch_name, default_commit_type, issue_no,
                   commit_message, commit_type, updated_commit_message,
                   file0>>

Next ==
    \/ _set_branch_info
    \/ _read_commit_message
    \/ _extract_type_from_commit_message
    \/ _format_commit_message
    \/ _write_commit_message

Spec == Init /\ [][Next]_vars

----------------------------------------------------------------------------
(* Vocabulary of the properties, stated on the text of the inputs *)

Ran(m) == \E i \in 1..Len(called) : called[i] = m

\* format_message returned normally: the message file has been rewritten
Written == Ran("_write_commit_message") /\ err = NoErr

\* s is made of letters only
AllLetters(s) == \A i \in 1..Len(s) : IsLetter(s[i])
\* s is made of whitespace only
AllSpace(s) == \A i \in 1..Len(s) : IsSpace(s[i])

\* message m starts with one or more letters immediately followed by ":"
HasToken(m) ==
    \E n \in 1..(Len(m) - 1) : AllLetters(SubSeq(m, 1, n)) /\ m[n + 1] = ":"
\* those letters
Token(m) ==
    SubSeq(m, 1, CHOOSE n \in 1..(Len(m) - 1) :
                     AllLetters(SubSeq(m, 1, n)) /\ m[n + 1] = ":")

\* word w, whatever its casing, is one of the commit types / skip prefixes
IsCommitType(w) == In(Lower(w), DEFAULT_COMMIT_TYPES)
IsSkipPrefix(w) == In(Lower(w), DEFAULT_SKIP_PREFIXES)

\* the "/"-separated segments of the branch name
Segment(n) == Split(branch_name)[n]
Segments == Len(Split(branch_name))

\* ISSUE(type): text
Canonical(issue, type, text) ==
    issue \o <<"(">> \o type \o <<")", ":", " ">> \o text

\* the fixed order of the lifecycle
FixedOrder ==
    << "_set_branch_info", "_read_commit_message",
       "_extract_type_from_commit_message", "_format_commit_message",
       "_write_commit_message" >>

----------------------------------------------------------------------------
(* C1: whenever the run has failed with any error, the message file still *)
(* holds exactly its original content; the write step has run only after  *)
(* derive, read, extract and format all ran, in a run without error.      *)
C1_NoWriteOnError ==
    /\ err # NoErr => file = file0
    /\ file # file0 => Ran("_write_commit_message")
    /\ Ran("_write_commit_message") => err = NoErr /\ called = FixedOrder

\* a run that failed in the format step, on a non-empty message file
C1_Witness ==
    /\ err = IncompleteResolution
    /\ Ran("_format_commit_message")
    /\ file0 # <<>>
    /\ file = file0

(* C2: whenever format_message succeeds with a commit type that is not a  *)
(* skip prefix, the written message is exactly uppercase(second branch    *)
(* segment) + "(" + lowercase(commit type) + "): " + stripped message,    *)
(* for every casing of the issue id and of the type token.                *)
C2_CanonicalFormat ==
    (Written /\ ~IsSkipPrefix(commit_type)) =>
        file = Canonical(Upper(Segment(2)), Lower(commit_type),
                         commit_message)

\* a written message whose issue id was not upper case in the branch and
\* whose type token was not lower case in the message
C2_Witness ==
    /\ Written
    /\ ~IsSkipPrefix(commit_type)
    /\ HasToken(file0) /\ commit_type = Token(file0)
    /\ commit_type # Lower(commit_type)
    /\ Segment(2) # Upper(Segment(2))
    /\ file # file0

(* C3: on a valid type-carrying branch T/ISSUE/..., a message starting    *)
(* with a recognized commit type token and ":" is written with the        *)
(* message's token as type (default_commit_type stays T); a message       *)
(* without a leading letters-then-colon token is written with type T and  *)
(* its text unmodified.                                                   *)
C3_MessageTypeOverridesBranch ==
    LET T == Lower(Segment(1))
        valid == /\ IsCommitType(Segment(1))
                 /\ Segments >= 2
                 /\ IssueMatch(Segment(2)) # None
    IN  (Ran("_extract_type_from_commit_message") /\ valid) =>
          /\ default_commit_type = T
          /\ (HasToken(file0) /\ IsCommitType(Token(file0))) =>
                /\ err = NoErr
                /\ commit_type = Token(file0)
                /\ Ran("_write_commit_message") =>
                     file = Canonical(Upper(Segment(2)),
                                      Lower(Token(file0)), commit_message)
          /\ ~HasToken(file0) =>
                /\ err = NoErr
                /\ commit_type = T
                /\ commit_message = file0
                /\ Ran("_write_commit_message") =>
                     file = Canonical(Upper(Segment(2)), T, file0)

\* a message written with a type that differs from the branch's type
C3_Witness ==
    /\ Written
    /\ default_commit_type # None
    /\ HasToken(file0) /\ IsCommitType(Token(file0))
    /\ Lower(Token(file0)) # default_commit_type
    /\ file = Canonical(Upper(issue_no), Lower(Token(file0)), commit_message)

(* C4: if the resolved commit type, compared case-insensitively, is a     *)
(* skip prefix, format_message succeeds and writes the stripped message   *)
(* verbatim: no missing-issue error, no ISSUE(type): prefix.              *)
C4_SkipAnyCasing ==
    (commit_type # None /\ IsSkipPrefix(commit_type)) =>
        /\ err = NoErr
        /\ Ran("_write_commit_message") => file = commit_message

(* C5: for every skip prefix p of the configured set and every branch     *)
(* that passes derivation, a message p + ":" + text resolves commit_type  *)
(* to p and is passed through as text with the prefix stripped, never     *)
(* failing and never formatted with the branch default.                   *)
C5_EverySkipPrefixBypasses ==
    \A i \in 1..Len(DEFAULT_SKIP_PREFIXES) :
        LET p == DEFAULT_SKIP_PREFIXES[i]
        IN  (/\ Ran("_extract_type_from_commit_message")
             /\ Len(file0) > Len(p)
             /\ SubSeq(file0, 1, Len(p) + 1) = p \o <<":">>) =>
                /\ err = NoErr
                /\ commit_type = p
                /\ Ran("_write_commit_message") =>
                     file = Strip(SliceFrom(file0, Len(p) + 1))

(* C6: a branch whose first segment is a recognized commit type and whose *)
(* second segment is missing or does not match the issue pattern fails    *)
(* derivation with InvalidBranchFormat and no other failure, leaves       *)
(* default_commit_type and issue_no unset, before the message is read.    *)
C6_InvalidBranchFormat ==
    (/\ Ran("_set_branch_info")
     /\ IsCommitType(Segment(1))
     /\ (Segments < 2 \/ IssueMatch(Segment(2)) = None)) =>
        /\ err = InvalidBranchFormat
        /\ default_commit_type = None
        /\ issue_no = None
        /\ called = <<"_set_branch_info">>
        /\ commit_message = None

(* C7: type extraction fails with UnresolvedCommitType iff the message    *)
(* has no leading letters-then-colon token and the branch gave no default *)
(* type, with DisallowedCommitType iff such a token is present and is in  *)
(* neither vocabulary (even when the branch gives a default), and fails   *)
(* in no other way.                                                       *)
C7_ExtractionFailures ==
    called = SubSeq(FixedOrder, 1, 3) =>
        /\ err = UnresolvedCommitType(branch_name, file0)
              <=> (~HasToken(file0) /\ default_commit_type = None)
        /\ (HasToken(file0) /\ err = DisallowedCommitType(Token(file0)))
              <=> (HasToken(file0) /\ ~IsCommitType(Token(file0))
                                   /\ ~IsSkipPrefix(Token(file0)))
        /\ err # NoErr =>
              \/ err = UnresolvedCommitType(branch_name, file0)
              \/ HasToken(file0) /\ err = DisallowedCommitType(Token(file0))

\* a disallowed token rejected although the branch supplies a default type
C7_Witness ==
    /\ called = SubSeq(FixedOrder, 1, 3)
    /\ default_commit_type # None
    /\ HasToken(file0)
    /\ err = DisallowedCommitType(Token(file0))

(* C8: a message declaring a recognized non-skip commit type on a branch  *)
(* that yields no issue id fails in the format step with                  *)
(* IncompleteResolution and nothing is written; every successfully        *)
(* written non-skip message has an issue id and a type.                   *)
C8_IssueRequired ==
    /\ (/\ Ran("_format_commit_message")
        /\ HasToken(file0) /\ IsCommitType(Token(file0))
        /\ ~IsCommitType(Segment(1))) =>
            /\ err = IncompleteResolution
            /\ ~Ran("_write_commit_message")
            /\ file = file0
    /\ (Written /\ ~In(commit_type, DEFAULT_SKIP_PREFIXES)) =>
            /\ issue_no # None
            /\ commit_type # None

\* the type came from the message, the branch has no type: format failed
C8_Witness ==
    /\ Ran("_format_commit_message")
    /\ HasToken(file0) /\ IsCommitType(Token(file0))
    /\ commit_type = Token(file0)
    /\ issue_no = None
    /\ err = IncompleteResolution

(* C9: the steps of a run occur in the order derive, read, extract,       *)
(* format, write; commit_type is set at most once, by the extract step,   *)
(* and never reassigned; updated_commit_message is assigned at most once, *)
(* when commit_type is already resolved, and is the only value written.   *)
C9_FixedOrderSingleAssignment ==
    [][ /\ Len(called) < Len(FixedOrder)
        /\ called' = Append(called, FixedOrder[Len(called) + 1])
        /\ commit_type' # commit_type =>
              /\ commit_type = None
              /\ FixedOrder[Len(called')] = "_extract_type_from_commit_message"
        /\ updated_commit_message' # updated_commit_message =>
              /\ updated_commit_message = None
              /\ commit_type # None
              /\ FixedOrder[Len(called')] = "_format_commit_message"
        /\ file' # file =>
              /\ file' = updated_commit_message
              /\ updated_commit_message # None
      ]_vars

\* a complete run: all five steps ran and the formatted message is written
C9_Witness ==
    /\ called = FixedOrder
    /\ err = NoErr
    /\ commit_type # None
    /\ updated_commit_message # None
    /\ file = updated_commit_message
    /\ file # file0

(* C10 as stated: with a leading token of the vocabulary, commit_type is  *)
(* the token as written and the stripped message is the original with     *)
(* only the token, the colon and the whitespace right after the colon     *)
(* removed; everything else, trailing whitespace included, is preserved.  *)
C10_OnlyFrontRemoved ==
    (/\ called = SubSeq(FixedOrder, 1, 3)
     /\ HasToken(file0)
     /\ (IsCommitType(Token(file0)) \/ IsSkipPrefix(Token(file0)))) =>
        /\ commit_type = Token(file0)
        /\ \E ws \in 0..Len(file0) :
              LET front == Token(file0) \o <<":">>
                  gap == SubSeq(file0, Len(front) + 1, Len(front) + ws)
              IN  /\ Len(front) + ws <= Len(file0)
                  /\ AllSpace(gap)
                  /\ file0 = front \o gap \o commit_message
                  /\ (commit_message = <<>> \/ ~IsSpace(Head(commit_message)))

(* C10 amended: with a leading token of the vocabulary, commit_type is    *)
(* the token as written and the stripped message is the original with the *)
(* token, the colon, the whitespace right after the colon and the         *)
(* whitespace at the end of the message removed; every character between  *)
(* is preserved.                                                          *)
C10_BothEndsStripped ==
    (/\ called = SubSeq(FixedOrder, 1, 3)
     /\ HasToken(file0)
     /\ (IsCommitType(Token(file0)) \/ IsSkipPrefix(Token(file0)))) =>
        /\ commit_type = Token(file0)
        /\ \E ws \in 0..Len(file0), tr \in 0..Len(file0) :
              LET front == Token(file0) \o <<":">>
                  gap == SubSeq(file0, Len(front) + 1, Len(front) + ws)
                  trail == SubSeq(file0, Len(file0) - tr + 1, Len(file0))
              IN  /\ Len(front) + ws + tr <= Len(file0)
                  /\ AllSpace(gap)
                  /\ AllSpace(trail)
                  /\ file0 = front \o gap \o commit_message \o trail
                  /\ (commit_message = <<>>
                        \/ (/\ ~IsSpace(Head(commit_message))
                            /\ ~IsSpace(commit_message[Len(commit_message)])))

\* a mixed-case token stripped from a message that ends with a newline
\* and has whitespace inside its text
C10_Witness ==
    /\ called = SubSeq(FixedOrder, 1, 3)
    /\ HasToken(file0)
    /\ commit_type = Token(file0)
    /\ commit_type # Lower(commit_type)
    /\ file0[Len(file0)] = "\n"
    /\ commit_message # <<>>
    /\ \E i \in 1..Len(commit_message) : IsSpace(commit_message[i])
    /\ err = NoErr

====
